---- MODULE Spec2Model ----
(***************************************************************************)
(* Kafka layer of derived-express: the connection manager (KafkaClient     *)
(* with its CircuitBreaker), and the consumer service's per-message        *)
(* callback with retry and dead-letter routing.                            *)
(***************************************************************************)
EXTENDS Integers, Sequences, FiniteSets, TLC

\* ------------------------------------------------------------------------
\* Bounds of the model
\* ------------------------------------------------------------------------
\* concurrent callers of the connection manager's public methods
Callers == {"c1", "c2"}
\* the callers that run next to a disconnect()
ShutdownCallers == {"c1"}
HealthCallers == {"c1"}
\* the group each caller asks getConsumer() for where the groups are followed
\* apart, and the caller whose broker connections fail
GroupOf == [c \in Callers |-> IF c = "c1" THEN "orders" ELSE ""]
FailingCallers == {"c1"}
\* groupId arguments passed to getConsumer ("" stands for an omitted groupId)
GroupArgs == {"", "orders"}
\* value of the breaker's failure counter up to which attempts are started
MaxFailures == 7
\* Date.now() at construction, the clock step and the number of clock steps
StartTime == 1000000
TickMs == 40000
MaxTicks == 2

\* messages the broker hands to eachMessage, and the partitions they are on
MaxMessages == 2
Partitions == {0}
\* the configs start() is called with: {}, { maxRetries: -1 } and
\* { enableDLQ: false }; {} stands for an omitted maxRetries
Config(mr, dlq) == [groupId |-> "", maxRetries |-> mr, enableDLQ |-> dlq]
NoConfig == Config({}, "undefined")
Configs == {NoConfig, Config({-1}, "undefined"), Config({}, "false")}
\* the callers of start() on the consumer service
Starters == {"start", "start2"}
\* the largest maxRetries of the configs the retry loop is run with
MaxMaxRetries == 6
\* the event types a handler is registered for
RegisteredTypes == {"user.created"}
\* the lengths of the batches publishBatch() is called with, and the number
\* of batches the broker takes
BatchSizes == {0, 1, 2, 1000, 1001}
MaxSends == 2

\* ------------------------------------------------------------------------
\* Program constants
\* ------------------------------------------------------------------------
threshold == 5
timeout == 60000
GROUP_ID == "express-api-consumer-group"
DefaultMaxRetries == 3
DLQ == "dead-letter-queue"
USER_EVENTS == "user.events"
\* the eventType literals of the EventSchema union
SchemaEventTypes == {"user.created", "user.updated", "user.deleted",
                     "order.created", "dlq.message"}
\* null, and the handles the kafkajs factory hands out: a handle is told apart
\* by what it is, its consumer group and the call that constructed it
NULL == [kind |-> "null", group |-> "", by |-> ""]
\* the consumer service calls the connection manager too: start() asks it for
\* the consumer, publishEvent() (on the dead-letter path) for the producer
Procs == Callers \cup Starters \cup {"dlq", "pub"}

VARIABLES
    \* CircuitBreaker fields: [failures, lastFailureTime, state]
    circuitBreaker,
    \* KafkaClient fields
    producer, consumers, admin, isShuttingDown, connectionState, lastError,
    \* the connection state of each reachable handle of the kafkajs factory
    objs,
    \* Date.now()
    now,
    \* one pending public call per caller
    pc, op, arg, local, ret,
    \* the disconnect() call: position of its inner async block, the consumer
    \* entry it is at, the consumer it awaits, and the outcome of the race
    dpc, dIdx, dcur, dres,
    \* completions of breaker-wrapped attempts since the last successful one
    consecutiveFailures,
    \* the callers whose pending attempt took the breaker from OPEN to HALF_OPEN
    probes,
    \* KafkaConsumerService fields
    isRunning, isPaused, handlers, metrics,
    \* the start() call: [pc, config, consumer]
    starter, subscribed, running,
    \* the consumer whose run loop has begun, and the config its eachMessage
    \* callback has closed over
    runOn, runConfig,
    \* the broker side: messages handed to eachMessage so far, the next offset
    \* of each partition, and the records written to the dead-letter topic
    delivered, nextOffset, dlqLog,
    \* the eachMessage callback in progress:
    \* [pc, msg, attempt, lastError, error, producer, invoked, handled]
    cb,
    \* the publishEvent() / publishBatch() call in progress:
    \* [pc, kind, batch, producer, result], and the batches sent to the broker
    pub, sent

breakerVars == <<circuitBreaker, consecutiveFailures, probes>>
managerVars == <<producer, consumers, admin, isShuttingDown, connectionState, lastError>>
callVars == <<pc, op, arg, local, ret>>
disconnectVars == <<dpc, dIdx, dcur, dres>>

consumerVars == <<isRunning, isPaused, handlers, metrics, starter, subscribed, running, runOn,
                  runConfig, delivered, nextOffset, dlqLog, cb>>
producerVars == <<pub, sent>>
serviceVars == <<consumerVars, producerVars>>
clientVars == <<breakerVars, managerVars, callVars, disconnectVars, objs, now>>

vars == <<clientVars, serviceVars>>

\* ------------------------------------------------------------------------
\* Values
\* ------------------------------------------------------------------------
NoRet == [t |-> "none", v |-> NULL, e |-> ""]
Value(x) == [t |-> "value", v |-> x, e |-> ""]
Throw(m) == [t |-> "throw", v |-> NULL, e |-> m]

\* ------------------------------------------------------------------------
\* CircuitBreaker
\* ------------------------------------------------------------------------
\* the OPEN branch with the cooldown comparison turned round
CbRejects_lt(b, t) == b.state = "OPEN" /\ ~(t - b.lastFailureTime < timeout)

\* the OPEN branch that rejects whatever the time
CbRejects_open(b, t) == b.state = "OPEN"

\* execute(): the OPEN branch that throws without running fn
CbRejects(b, t) == b.state = "OPEN" /\ ~(t - b.lastFailureTime > timeout)

\* execute(): the breaker as fn is started (OPEN past the cooldown -> HALF_OPEN)
CbAdmit(b, t) ==
    IF b.state = "OPEN" /\ t - b.lastFailureTime > timeout
    THEN [b EXCEPT !.state = "HALF_OPEN"]
    ELSE b

onSuccess(b) == [b EXCEPT !.failures = 0, !.state = "CLOSED"]

\* onFailure comparing the counter with > instead of >=
onFailure_gt(b, t) ==
    LET f == b.failures + 1
    IN  [failures |-> f,
         lastFailureTime |-> t,
         state |-> IF f > threshold THEN "OPEN" ELSE b.state]

onFailure(b, t) ==
    LET f == b.failures + 1
    IN  [failures |-> f,
         lastFailureTime |-> t,
         state |-> IF f >= threshold THEN "OPEN" ELSE b.state]

\* ------------------------------------------------------------------------
\* KafkaClient helpers
\* ------------------------------------------------------------------------
consumerGroupId(g) == IF g = "" THEN GROUP_ID ELSE g

\* Map<string, Consumer> in insertion order: a sequence of [g, id]
MapHas(m, g) == \E i \in 1..Len(m) : m[i].g = g
MapGet(m, g) == m[CHOOSE i \in 1..Len(m) : m[i].g = g].id
MapSet(m, g, id) ==
    IF MapHas(m, g)
    THEN [i \in 1..Len(m) |-> IF m[i].g = g THEN [g |-> g, id |-> id] ELSE m[i]]
    ELSE Append(m, [g |-> g, id |-> id])

\* object table: the state of every handle some field, Map entry, pending
\* call or returned value refers to; "free" when there is no such handle
Groups == {consumerGroupId(g) : g \in GroupArgs}
ObjIds ==
    [kind : {"producer", "admin"}, group : {""}, by : Procs]
        \cup [kind : {"consumer"}, group : Groups, by : Procs]
Handle(kind, g, c) == [kind |-> kind, group |-> g, by |-> c]
CanCreate(id) == objs[id] = "free"
SetSt(o, id, s) == IF id \in ObjIds THEN [o EXCEPT ![id] = s] ELSE o

Live ==
    ({producer, admin, dcur, runOn, cb.producer, pub.producer}
        \cup {starter[s].consumer : s \in Starters}
        \cup {r.consumer : r \in subscribed \cup running}
        \cup {consumers[i].id : i \in 1..Len(consumers)}
        \cup {local[c] : c \in Procs} \cup {ret[c].v : c \in Procs}) \ {NULL}
Reclaim(o, live) == [i \in ObjIds |-> IF i \in live THEN o[i] ELSE "free"]

\* attempts through the breaker that have not yet reached onSuccess/onFailure
InFlight == Cardinality({c \in Procs : pc[c] \in {"producerConnect", "consumerConnect"}})
MayAttempt == circuitBreaker.failures + InFlight < MaxFailures

\* ------------------------------------------------------------------------
\* KafkaConsumerService: values
\* ------------------------------------------------------------------------
\* what a handler (or a parser) throws: message is e.message of an Error,
\* string is String(e), falsy is !e, json is whether JSON.stringify accepts
\* it (it throws a TypeError on a circular structure and on a BigInt)
Thrown(isErr, msg, str, falsy, json) ==
    [isError |-> isErr, message |-> msg, string |-> str, falsy |-> falsy, json |-> json]
NullError == Thrown(FALSE, "", "null", TRUE, TRUE)
ErrBoom == Thrown(TRUE, "boom", "Error: boom", FALSE, TRUE)
Undefined == Thrown(FALSE, "", "undefined", TRUE, TRUE)
\* const e = new Error("cyclic"); e.self = e
ErrCyclic == Thrown(TRUE, "cyclic", "Error: cyclic", FALSE, FALSE)
MaxRetriesExceeded ==
    Thrown(TRUE, "Max retries exceeded", "Error: Max retries exceeded", FALSE, TRUE)
SyntaxError ==
    Thrown(TRUE, "Unexpected token in JSON",
           "SyntaxError: Unexpected token in JSON", FALSE, TRUE)
ZodError ==
    Thrown(TRUE, "Invalid discriminator value",
           "ZodError: Invalid discriminator value", FALSE, TRUE)
HandlerThrows == {ErrBoom, Undefined, ErrCyclic}

\* message.value: null, bytes that are not JSON, or the JSON text of an object
NoValue == [json |-> FALSE, eventType |-> "", shape |-> "null"]
Garbage == [json |-> FALSE, eventType |-> "", shape |-> "text"]
Json(et, ok) == [json |-> TRUE, eventType |-> et, shape |-> IF ok THEN "event" ELSE "other"]
Values == {NoValue, Garbage, Json("page.viewed", TRUE), Json("user.created", TRUE)}

NoMessage == [topic |-> "", partition |-> 0, offset |-> 0, value |-> NoValue]
\* no start() in progress
StartIdle == [pc |-> "idle", config |-> NoConfig, consumer |-> NULL]
\* the events argument of a publish call: its length and the positions of
\* the events whose enriched envelope EventSchema.parse rejects
Batch(n, inv) == [size |-> n, invalid |-> inv]
Batches == {Batch(n, inv) : n \in BatchSizes, inv \in SUBSET (1..2)}
\* the event and options arguments of publishEvent() and the uuid that
\* uuidv4() returns in the call; an optional field is the empty set or the
\* set of its value
EventArgs ==
    {[eventType |-> "user.created"],
     [eventType |-> "user.created", eventId |-> "caller-id", timestamp |-> "caller-time"]}
KeyArgs == {{}, {""}, {"order-1"}}
HeaderArgs == {{}, {[eventType |-> "spoofed", eventId |-> "spoofed"]}, {[trace |-> "t1"]}}
Uuids == {"uuid-1", "uuid-2"}
PublishCall(e, k, h, u) == [event |-> e, options |-> [key |-> k, headers |-> h], uuid |-> u]
PublishCalls == {PublishCall(e, k, h, u) : e \in EventArgs, k \in KeyArgs, h \in HeaderArgs, u \in Uuids}
\* the call of publishBatch(), which takes no key or headers
BatchCall == PublishCall([eventType |-> "user.created"], {}, {}, "uuid-1")
\* no publish call in progress; message is the message handed to
\* producer.send() by publishEvent(), txn the broker transaction of
\* publishEventTransactional(): "none", "open", "committed" or "aborted"
IdlePublish ==
    [pc |-> "idle", kind |-> "none", batch |-> Batch(0, {}), producer |-> NULL,
     result |-> "none", call |-> BatchCall, message |-> {}, txn |-> "none"]

\* no eachMessage callback in progress; retries0 is metrics.totalRetries as
\* it was when executeWithRetry was called
IdleCallback ==
    [pc |-> "idle", msg |-> NoMessage, attempt |-> 0, lastError |-> NullError,
     error |-> NullError, producer |-> NULL, invoked |-> 0, retry |-> "none",
     retries0 |-> 0, backoffMs |-> 0, handled |-> FALSE]

\* JSON.parse(message.value.toString()) succeeds
IsJson(v) == v.json
\* EventSchema.parse(raw) succeeds: the discriminator is one of the union's
\* literals and the object has the fields of that member
SchemaOk(raw) == raw.eventType \in SchemaEventTypes /\ raw.shape = "event"

\* config.maxRetries ?? 3
MaxRetriesOf(cfg) ==
    IF cfg.maxRetries = {} THEN DefaultMaxRetries
    ELSE CHOOSE n \in cfg.maxRetries : TRUE

\* error instanceof Error ? error.message : String(error)
ErrorText(e) == IF e.isError THEN e.message ELSE e.string

\* the event sendToDeadLetterQueue hands to publishEvent
DlqEvent(m, e) ==
    [eventType |-> "dlq.message", shape |-> "event",
     originalTopic |-> m.topic, originalPartition |-> m.partition,
     originalOffset |-> m.offset, error |-> ErrorText(e)]

\* ------------------------------------------------------------------------
\* KafkaConsumerService: handleMessage and executeWithRetry, each from one
\* await to the next, as functions of the callback c, the metrics mt and the
\* config cfg; the result is the callback and the metrics at the next await
\* ------------------------------------------------------------------------
\* sendToDeadLetterQueue's own catch block swallows a failed publish
DlqPublishFailed(c) == [c EXCEPT !.pc = "resolved", !.producer = NULL]

\* this.log(level, message, context): JSON.stringify(logData) succeeds
LogOk(e) == e.json

\* handleMessage: the catch block up to publishEvent's await of getProducer();
\* an exception of this.log() leaves the catch block and rejects handleMessage
CatchBlock(c, mt, cfg, e) ==
    [cb |-> [c EXCEPT !.error = e,
                      !.pc = IF ~LogOk(e) THEN "raised"
                             ELSE IF cfg.enableDLQ = "false" THEN "resolved"
                             ELSE IF SchemaOk(DlqEvent(c.msg, e)) THEN "getProducer"
                             ELSE DlqPublishFailed(c).pc],
     metrics |-> [mt EXCEPT !.totalFailed = @ + 1]]

\* throw lastError || new Error("Max retries exceeded")
Raised(lastErr) == IF lastErr.falsy THEN MaxRetriesExceeded ELSE lastErr

\* the loop condition with < for <=
RetryLoop_lt(c, mt, cfg, a) ==
    IF a < MaxRetriesOf(cfg)
    THEN [cb |-> [c EXCEPT !.attempt = a, !.pc = "handler", !.invoked = @ + 1],
          metrics |-> mt]
    ELSE CatchBlock([c EXCEPT !.retry = "raised"], mt, cfg, Raised(c.lastError))

\* executeWithRetry: the head of the for loop with attempt = a
RetryLoop(c, mt, cfg, a) ==
    IF a <= MaxRetriesOf(cfg)
    THEN [cb |-> [c EXCEPT !.attempt = a, !.pc = "handler", !.invoked = @ + 1],
          metrics |-> mt]
    ELSE CatchBlock([c EXCEPT !.retry = "raised"], mt, cfg, Raised(c.lastError))

\* the backoff without the 30 s cap
backoffMs_nocap(attempt) == 1000 * 2^attempt

\* Math.min(1000 * Math.pow(2, attempt), 30000)
backoffMs(attempt) ==
    IF 1000 * 2^attempt < 30000 THEN 1000 * 2^attempt ELSE 30000

\* executeWithRetry: await fn() has rejected with e; where another attempt
\* is left, await this.sleep(backoffMs)
HandlerRejected(c, mt, cfg, e) ==
    LET c1 == [c EXCEPT !.lastError = e]
        mt1 == [mt EXCEPT !.totalRetries = @ + 1]
    IN  IF c.attempt < MaxRetriesOf(cfg)
        THEN [cb |-> [c1 EXCEPT !.pc = "backoff", !.backoffMs = backoffMs(c.attempt)],
              metrics |-> mt1]
        ELSE RetryLoop(c1, mt1, cfg, c.attempt + 1)

\* handleMessage that counts a handled message as failed as well
HandlerResolved_both(c, mt) ==
    [cb |-> [c EXCEPT !.pc = "resolved", !.retry = "returned", !.handled = TRUE],
     metrics |-> [mt EXCEPT !.totalProcessed = @ + 1, !.totalFailed = @ + 1]]

\* executeWithRetry returns; handleMessage counts the message as processed
HandlerResolved(c, mt) ==
    [cb |-> [c EXCEPT !.pc = "resolved", !.retry = "returned", !.handled = TRUE],
     metrics |-> [mt EXCEPT !.totalProcessed = @ + 1]]

\* handleMessage without EventSchema.parse(rawEvent)
HandleMessage_noValidate(c, mt, cfg, h) ==
    IF c.msg.value = NoValue
    THEN [cb |-> [c EXCEPT !.pc = "resolved"], metrics |-> mt]
    ELSE IF ~IsJson(c.msg.value)
    THEN CatchBlock(c, mt, cfg, SyntaxError)
    ELSE IF c.msg.value.eventType \notin h
    THEN [cb |-> [c EXCEPT !.pc = "resolved"], metrics |-> mt]
    ELSE RetryLoop([c EXCEPT !.lastError = NullError, !.retry = "running",
                             !.retries0 = mt.totalRetries], mt, cfg, 0)

\* handleMessage that throws where no handler is registered
HandleMessage_noSkip(c, mt, cfg, h) ==
    IF c.msg.value = NoValue
    THEN [cb |-> [c EXCEPT !.pc = "resolved"], metrics |-> mt]
    ELSE IF ~IsJson(c.msg.value)
    THEN CatchBlock(c, mt, cfg, SyntaxError)
    ELSE IF ~SchemaOk(c.msg.value)
    THEN CatchBlock(c, mt, cfg, ZodError)
    ELSE IF c.msg.value.eventType \notin h
    THEN CatchBlock(c, mt, cfg, ErrBoom)
    ELSE RetryLoop([c EXCEPT !.lastError = NullError, !.retry = "running",
                             !.retries0 = mt.totalRetries], mt, cfg, 0)

\* handleMessage(payload, config) up to its first await
HandleMessage(c, mt, cfg, h) ==
    IF c.msg.value = NoValue
    THEN [cb |-> [c EXCEPT !.pc = "resolved"], metrics |-> mt]
    ELSE IF ~IsJson(c.msg.value)
    THEN CatchBlock(c, mt, cfg, SyntaxError)
    ELSE IF ~SchemaOk(c.msg.value)
    THEN CatchBlock(c, mt, cfg, ZodError)
    ELSE IF c.msg.value.eventType \notin h
    THEN [cb |-> [c EXCEPT !.pc = "resolved"], metrics |-> mt]
    ELSE RetryLoop([c EXCEPT !.lastError = NullError, !.retry = "running",
                             !.retries0 = mt.totalRetries], mt, cfg, 0)

\* eachMessage that returns without handling while the consumer is paused
EachMessage_drop(c, mt, cfg, h, paused) ==
    IF paused
    THEN [cb |-> [c EXCEPT !.pc = "resolved"], metrics |-> mt]
    ELSE HandleMessage(c, mt, cfg, h)

\* eachMessage: while (this.isPaused) await this.sleep(100), then handleMessage
EachMessage(c, mt, cfg, h, paused) ==
    IF paused
    THEN [cb |-> [c EXCEPT !.pc = "pausePoll"], metrics |-> mt]
    ELSE HandleMessage(c, mt, cfg, h)

Init ==
    /\ circuitBreaker = [failures |-> 0, lastFailureTime |-> 0, state |-> "CLOSED"]
    /\ producer = NULL
    /\ consumers = <<>>
    /\ admin = NULL
    /\ isShuttingDown = FALSE
    /\ connectionState = "DISCONNECTED"
    /\ lastError = "none"
    /\ objs = [i \in ObjIds |-> "free"]
    /\ now = StartTime
    /\ pc = [c \in Procs |-> "idle"]
    /\ op = [c \in Procs |-> "none"]
    /\ arg = [c \in Procs |-> ""]
    /\ local = [c \in Procs |-> NULL]
    /\ ret = [c \in Procs |-> NoRet]
    /\ dpc = "idle"
    /\ dIdx = 0
    /\ dcur = NULL
    /\ dres = "none"
    /\ consecutiveFailures = 0
    /\ probes = {}
    /\ isRunning = FALSE
    /\ isPaused = FALSE
    /\ handlers = {}
    /\ metrics = [totalProcessed |-> 0, totalFailed |-> 0, totalRetries |-> 0]
    /\ starter = [s \in Starters |-> StartIdle]
    /\ subscribed = {}
    /\ running = {}
    /\ runOn = NULL
    /\ runConfig = NoConfig
    /\ delivered = 0
    /\ nextOffset = [p \in Partitions |-> 0]
    /\ dlqLog = <<>>
    /\ cb = IdleCallback
    /\ pub = IdlePublish
    /\ sent = <<>>

\* the consumer that start(config) has connected, subscribed and run
Started == Handle("consumer", GROUP_ID, "start")

\* the state after registerHandler("user.created", h) and a start(config)
\* that has returned, for the configs { maxRetries: n, enableDLQ: false }
InitStarted ==
    /\ circuitBreaker = [failures |-> 0, lastFailureTime |-> 0, state |-> "CLOSED"]
    /\ producer = NULL
    /\ consumers = <<[g |-> GROUP_ID, id |-> Started]>>
    /\ admin = NULL
    /\ isShuttingDown = FALSE
    /\ connectionState = "DISCONNECTED"
    /\ lastError = "none"
    /\ objs = [i \in ObjIds |-> IF i = Started THEN "connected" ELSE "free"]
    /\ now = StartTime
    /\ pc = [c \in Procs |-> "idle"]
    /\ op = [c \in Procs |-> "none"]
    /\ arg = [c \in Procs |-> ""]
    /\ local = [c \in Procs |-> NULL]
    /\ ret = [c \in Procs |-> NoRet]
    /\ dpc = "idle"
    /\ dIdx = 0
    /\ dcur = NULL
    /\ dres = "none"
    /\ consecutiveFailures = 0
    /\ probes = {}
    /\ isRunning = TRUE
    /\ isPaused = FALSE
    /\ handlers = RegisteredTypes
    /\ metrics = [totalProcessed |-> 0, totalFailed |-> 0, totalRetries |-> 0]
    /\ starter = [s \in Starters |-> StartIdle]
    /\ subscribed = {[consumer |-> Started, by |-> "start"]}
    /\ running = {[consumer |-> Started, by |-> "start"]}
    /\ runOn = Started
    /\ runConfig \in {Config({n}, "false") : n \in 0..MaxMaxRetries}
    /\ delivered = 0
    /\ nextOffset = [p \in Partitions |-> 0]
    /\ dlqLog = <<>>
    /\ cb = IdleCallback
    /\ pub = IdlePublish
    /\ sent = <<>>

\* the clock advances; Date.now() is read only by the breaker, its value is
\* compared only while the breaker is OPEN, and onFailure stores it, so the
\* steps of the clock are taken while the breaker is OPEN
Tick ==
    /\ circuitBreaker.state = "OPEN"
    /\ UNCHANGED serviceVars
    /\ now + TickMs <= StartTime + MaxTicks * TickMs
    /\ now' = now + TickMs
    /\ UNCHANGED <<breakerVars, managerVars, callVars, disconnectVars, objs>>

\* execute(): fn is started
ExecuteStart(c) ==
    /\ circuitBreaker' = CbAdmit(circuitBreaker, now)
    /\ probes' = IF CbAdmit(circuitBreaker, now) # circuitBreaker
                 THEN probes \cup {c} ELSE probes

\* execute(): await fn() has resolved
ExecuteResolved(c) ==
    /\ circuitBreaker' = onSuccess(circuitBreaker)
    /\ consecutiveFailures' = 0
    /\ probes' = probes \ {c}

\* execute(): await fn() has rejected
ExecuteRejected(c) ==
    /\ circuitBreaker' = onFailure(circuitBreaker, now)
    /\ consecutiveFailures' = consecutiveFailures + 1
    /\ probes' = probes \ {c}

\* a call that returns or throws before any await
Finish(c, r) ==
    /\ ret' = [ret EXCEPT ![c] = r]
    /\ pc' = [pc EXCEPT ![c] = "done"]

\* getProducer(), up to its first await (or to its return / throw)
GetProducer(c) ==
    /\ pc[c] = "idle"
    /\ op' = [op EXCEPT ![c] = "getProducer"]
    /\ arg' = [arg EXCEPT ![c] = ""]
    /\ IF isShuttingDown
       THEN /\ Finish(c, Throw("Kafka client is shutting down"))
            /\ UNCHANGED <<circuitBreaker, probes, producer, connectionState, objs, local>>
       ELSE IF producer # NULL
       THEN /\ Finish(c, Value(producer))
            /\ UNCHANGED <<circuitBreaker, probes, producer, connectionState, objs, local>>
       ELSE IF CbRejects(circuitBreaker, now)
       THEN /\ Finish(c, Throw("Circuit breaker is OPEN"))
            /\ UNCHANGED <<circuitBreaker, probes, producer, connectionState, objs, local>>
       ELSE /\ CanCreate(Handle("producer", "", c)) /\ MayAttempt
            /\ ExecuteStart(c)
            /\ connectionState' = "CONNECTING"
            /\ objs' = [objs EXCEPT ![Handle("producer", "", c)] = "connecting"]
            /\ producer' = Handle("producer", "", c)
            /\ local' = [local EXCEPT ![c] = Handle("producer", "", c)]
            /\ pc' = [pc EXCEPT ![c] = "producerConnect"]
            /\ UNCHANGED ret
    /\ UNCHANGED <<consumers, admin, isShuttingDown, lastError, now,
                   consecutiveFailures, disconnectVars>>

\* a caller other than the consumer service calls getProducer()
GetProducerCall(c) == GetProducer(c) /\ UNCHANGED serviceVars

\* await this.producer.connect() resolves: fn returns this.producer, and
\* execute() resumes with onSuccess in the same run of the microtask queue
ProducerConnectOk(c) ==
    /\ pc[c] = "producerConnect"
    /\ UNCHANGED serviceVars
    /\ connectionState' = "CONNECTED"
    /\ ExecuteResolved(c)
    /\ ret' = [ret EXCEPT ![c] = Value(producer)]
    /\ local' = [local EXCEPT ![c] = NULL]
    /\ pc' = [pc EXCEPT ![c] = "done"]
    /\ UNCHANGED <<producer, consumers, admin, isShuttingDown,
                   lastError, now, op, arg, disconnectVars>>
    /\ objs' = Reclaim(SetSt(objs, local[c], "connected"),
                       Live')

\* await this.producer.connect() rejects: fn's catch block, then execute()'s
ProducerConnectFail(c) ==
    /\ pc[c] = "producerConnect"
    /\ UNCHANGED serviceVars
    /\ connectionState' = "ERROR"
    /\ lastError' = "connect failed"
    /\ ExecuteRejected(c)
    /\ ret' = [ret EXCEPT ![c] = Throw("connect failed")]
    /\ local' = [local EXCEPT ![c] = NULL]
    /\ pc' = [pc EXCEPT ![c] = "done"]
    /\ UNCHANGED <<producer, consumers, admin, isShuttingDown,
                   now, op, arg, disconnectVars>>
    /\ objs' = Reclaim(SetSt(objs, local[c], "failed"),
                       Live')

\* getConsumer(groupId), up to its first await (or to its return / throw)
GetConsumer(c, g) ==
    /\ pc[c] = "idle"
    /\ op' = [op EXCEPT ![c] = "getConsumer"]
    /\ arg' = [arg EXCEPT ![c] = consumerGroupId(g)]
    /\ IF isShuttingDown
       THEN /\ Finish(c, Throw("Kafka client is shutting down"))
            /\ UNCHANGED <<circuitBreaker, probes, objs, local>>
       ELSE IF MapHas(consumers, consumerGroupId(g))
       THEN /\ Finish(c, Value(MapGet(consumers, consumerGroupId(g))))
            /\ UNCHANGED <<circuitBreaker, probes, objs, local>>
       ELSE IF CbRejects(circuitBreaker, now)
       THEN /\ Finish(c, Throw("Circuit breaker is OPEN"))
            /\ UNCHANGED <<circuitBreaker, probes, objs, local>>
       ELSE /\ CanCreate(Handle("consumer", consumerGroupId(g), c)) /\ MayAttempt
            /\ ExecuteStart(c)
            /\ objs' = [objs EXCEPT ![Handle("consumer", consumerGroupId(g), c)] = "connecting"]
            /\ local' = [local EXCEPT ![c] = Handle("consumer", consumerGroupId(g), c)]
            /\ pc' = [pc EXCEPT ![c] = "consumerConnect"]
            /\ UNCHANGED ret
    /\ UNCHANGED <<producer, consumers, admin, isShuttingDown, connectionState,
                   lastError, now, consecutiveFailures, disconnectVars>>

\* a caller other than the consumer service calls getConsumer(groupId)
GetConsumerCall(c, g) == GetConsumer(c, g) /\ UNCHANGED serviceVars

\* await consumer.connect() resolves: the consumer is registered and returned,
\* and execute() resumes with onSuccess
ConsumerConnectOk(c) ==
    /\ pc[c] = "consumerConnect"
    /\ UNCHANGED serviceVars
    /\ consumers' = MapSet(consumers, arg[c], local[c])
    /\ ExecuteResolved(c)
    /\ ret' = [ret EXCEPT ![c] = Value(local[c])]
    /\ local' = [local EXCEPT ![c] = NULL]
    /\ pc' = [pc EXCEPT ![c] = "done"]
    /\ UNCHANGED <<producer, admin, isShuttingDown,
                   connectionState, lastError, now, op, arg, disconnectVars>>
    /\ objs' = Reclaim(SetSt(objs, local[c], "connected"),
                       Live')

\* await consumer.connect() rejects: fn's catch block, then execute()'s
ConsumerConnectFail(c) ==
    /\ pc[c] = "consumerConnect"
    /\ UNCHANGED serviceVars
    /\ lastError' = "connect failed"
    /\ ExecuteRejected(c)
    /\ ret' = [ret EXCEPT ![c] = Throw("connect failed")]
    /\ local' = [local EXCEPT ![c] = NULL]
    /\ pc' = [pc EXCEPT ![c] = "done"]
    /\ UNCHANGED <<producer, consumers, admin, isShuttingDown,
                   connectionState, now, op, arg, disconnectVars>>
    /\ objs' = Reclaim(SetSt(objs, local[c], "failed"),
                       Live')

\* getAdmin(), up to its first await (or to its return / throw)
GetAdminCall(c) ==
    /\ pc[c] = "idle"
    /\ UNCHANGED serviceVars
    /\ op' = [op EXCEPT ![c] = "getAdmin"]
    /\ arg' = [arg EXCEPT ![c] = ""]
    /\ IF isShuttingDown
       THEN /\ Finish(c, Throw("Kafka client is shutting down"))
            /\ UNCHANGED <<admin, objs, local>>
       ELSE IF admin # NULL
       THEN /\ Finish(c, Value(admin))
            /\ UNCHANGED <<admin, objs, local>>
       ELSE /\ CanCreate(Handle("admin", "", c))
            /\ objs' = [objs EXCEPT ![Handle("admin", "", c)] = "connecting"]
            /\ admin' = Handle("admin", "", c)
            /\ local' = [local EXCEPT ![c] = Handle("admin", "", c)]
            /\ pc' = [pc EXCEPT ![c] = "adminConnect"]
            /\ UNCHANGED ret
    /\ UNCHANGED <<breakerVars, producer, consumers, isShuttingDown,
                   connectionState, lastError, now, disconnectVars>>

\* await this.admin.connect() resolves: getAdmin returns this.admin
AdminConnectOk(c) ==
    /\ pc[c] = "adminConnect"
    /\ UNCHANGED serviceVars
    /\ ret' = [ret EXCEPT ![c] = Value(admin)]
    /\ local' = [local EXCEPT ![c] = NULL]
    /\ pc' = [pc EXCEPT ![c] = "done"]
    /\ UNCHANGED <<breakerVars, managerVars, disconnectVars, now, op, arg>>
    /\ objs' = Reclaim(SetSt(objs, local[c], "connected"),
                       Live')

\* await this.admin.connect() rejects: getAdmin rejects, this.admin stays set
AdminConnectFail(c) ==
    /\ pc[c] = "adminConnect"
    /\ UNCHANGED serviceVars
    /\ ret' = [ret EXCEPT ![c] = Throw("connect failed")]
    /\ local' = [local EXCEPT ![c] = NULL]
    /\ pc' = [pc EXCEPT ![c] = "done"]
    /\ UNCHANGED <<breakerVars, managerVars, disconnectVars, now, op, arg>>
    /\ objs' = Reclaim(SetSt(objs, local[c], "failed"),
                       Live')

\* healthCheck(): the HealthCheckResult returned, isHealthy true or false
Healthy(state) == [t |-> "healthy", v |-> NULL, e |-> "", state |-> state]
Unhealthy(state, msg) == [t |-> "unhealthy", v |-> NULL, e |-> msg, state |-> state]

\* healthCheck() without its try / catch
HealthFailed_rethrow(c, msg) ==
    /\ lastError' = msg
    /\ Finish(c, Throw(msg))

\* the catch block of healthCheck(): this.lastError = error, the error is
\* logged (JSON.stringify of an Error of getAdmin() or of kafkajs), and
\* { isHealthy: false, state, lastError } is returned
HealthFailed(c, msg) ==
    /\ lastError' = msg
    /\ Finish(c, Unhealthy(connectionState, msg))

\* healthCheck(), up to its first await (or to its return): the call of
\* getAdmin() is part of it
HealthCheck(c) ==
    /\ pc[c] = "idle"
    /\ UNCHANGED serviceVars
    /\ op' = [op EXCEPT ![c] = "healthCheck"]
    /\ arg' = [arg EXCEPT ![c] = ""]
    /\ IF isShuttingDown
       THEN /\ HealthFailed(c, "Kafka client is shutting down")
            /\ UNCHANGED <<admin, objs, local>>
       ELSE IF admin # NULL
       THEN /\ local' = [local EXCEPT ![c] = admin]
            /\ pc' = [pc EXCEPT ![c] = "listTopics"]
            /\ UNCHANGED <<admin, objs, ret, lastError>>
       ELSE /\ CanCreate(Handle("admin", "", c))
            /\ objs' = [objs EXCEPT ![Handle("admin", "", c)] = "connecting"]
            /\ admin' = Handle("admin", "", c)
            /\ local' = [local EXCEPT ![c] = Handle("admin", "", c)]
            /\ pc' = [pc EXCEPT ![c] = "healthConnect"]
            /\ UNCHANGED <<ret, lastError>>
    /\ UNCHANGED <<breakerVars, producer, consumers, isShuttingDown,
                   connectionState, now, disconnectVars>>

\* await this.admin.connect() resolves: getAdmin returns this.admin as it is
\* now, and healthCheck awaits admin.listTopics() on it (a TypeError when a
\* disconnect() has set this.admin to null meanwhile)
HealthConnectOk(c) ==
    /\ pc[c] = "healthConnect"
    /\ UNCHANGED serviceVars
    /\ IF admin = NULL
       THEN /\ HealthFailed(c, "Cannot read properties of null")
            /\ local' = [local EXCEPT ![c] = NULL]
       ELSE /\ local' = [local EXCEPT ![c] = admin]
            /\ pc' = [pc EXCEPT ![c] = "listTopics"]
            /\ UNCHANGED <<ret, lastError>>
    /\ UNCHANGED <<breakerVars, producer, consumers, admin, isShuttingDown,
                   connectionState, disconnectVars, now, op, arg>>
    /\ objs' = Reclaim(SetSt(objs, local[c], "connected"),
                       Live')

\* await this.admin.connect() rejects: this.admin stays set
HealthConnectFail(c) ==
    /\ pc[c] = "healthConnect"
    /\ UNCHANGED serviceVars
    /\ HealthFailed(c, "connect failed")
    /\ local' = [local EXCEPT ![c] = NULL]
    /\ UNCHANGED <<breakerVars, producer, consumers, admin, isShuttingDown,
                   connectionState, disconnectVars, now, op, arg>>
    /\ objs' = Reclaim(SetSt(objs, local[c], "failed"),
                       Live')

\* await admin.listTopics() resolves: { isHealthy: true, ... } is returned
ListTopicsOk(c) ==
    /\ pc[c] = "listTopics"
    /\ objs[local[c]] = "connected"
    /\ UNCHANGED serviceVars
    /\ Finish(c, Healthy(connectionState))
    /\ local' = [local EXCEPT ![c] = NULL]
    /\ UNCHANGED <<breakerVars, managerVars, disconnectVars, now, op, arg>>
    /\ objs' = Reclaim(objs, Live')

\* await admin.listTopics() rejects
ListTopicsFail(c) ==
    /\ pc[c] = "listTopics"
    /\ UNCHANGED serviceVars
    /\ HealthFailed(c, "listTopics failed")
    /\ local' = [local EXCEPT ![c] = NULL]
    /\ UNCHANGED <<breakerVars, producer, consumers, admin, isShuttingDown,
                   connectionState, disconnectVars, now, op, arg>>
    /\ objs' = Reclaim(objs, Live')

\* the caller's await of its call is over: the outcome is taken
Resume(c) ==
    /\ pc[c] = "done"
    /\ pc' = [pc EXCEPT ![c] = "idle"]
    /\ op' = [op EXCEPT ![c] = "none"]
    /\ arg' = [arg EXCEPT ![c] = ""]
    /\ ret' = [ret EXCEPT ![c] = NoRet]
    /\ UNCHANGED <<breakerVars, managerVars, disconnectVars, now, local>>

\* a caller other than the consumer service takes the outcome and drops it
Return(c) ==
    /\ Resume(c)
    /\ UNCHANGED serviceVars
    /\ objs' = Reclaim(objs, Live')

\* the race of disconnect() is settled by whichever promise settles first
Settle(d, outcome) == IF d \in {"none", "pending"} THEN outcome ELSE d

\* disconnect()'s inner async block from the for..of over this.consumers on,
\* k entries having been dealt with, up to its next await or to its end
DisconnectLoop(k) ==
    IF k < Len(consumers)
    THEN /\ dpc' = "consumer"
         /\ dIdx' = k + 1
         /\ dcur' = consumers[k + 1].id
         /\ connectionState' = "DISCONNECTING"
         /\ dres' = Settle(dres, "pending")
         /\ UNCHANGED consumers
    ELSE /\ consumers' = <<>>
         /\ dIdx' = 0
         /\ dcur' = NULL
         /\ IF admin # NULL
            THEN /\ dpc' = "admin"
                 /\ connectionState' = "DISCONNECTING"
                 /\ dres' = Settle(dres, "pending")
            ELSE /\ dpc' = "finished"
                 /\ connectionState' = "DISCONNECTED"
                 /\ dres' = Settle(dres, "resolved")

\* disconnect() that leaves the flag as it was
MarkShuttingDown_skip == UNCHANGED isShuttingDown

\* disconnect(): this.isShuttingDown = true
MarkShuttingDown == isShuttingDown' = TRUE

\* disconnect(timeoutMs), up to the first await of its inner async block
DisconnectCall ==
    /\ dpc = "idle"
    /\ UNCHANGED serviceVars
    /\ MarkShuttingDown
    /\ IF producer # NULL
       THEN /\ dpc' = "producer"
            /\ dres' = "pending"
            /\ connectionState' = "DISCONNECTING"
            /\ UNCHANGED <<consumers, dIdx, dcur>>
       ELSE DisconnectLoop(0)
    /\ UNCHANGED <<breakerVars, producer, admin, lastError, callVars, now>>
    /\ objs' = Reclaim(objs, Live')

\* await this.producer.disconnect() resolves
DisconnectProducerOk ==
    /\ dpc = "producer"
    /\ UNCHANGED serviceVars
    /\ producer' = NULL
    /\ DisconnectLoop(0)
    /\ UNCHANGED <<breakerVars, admin, isShuttingDown, lastError, callVars, now>>
    /\ objs' = Reclaim(SetSt(objs, producer, "disconnected"),
                       Live')

\* await consumer.disconnect() resolves
DisconnectConsumerOk ==
    /\ dpc = "consumer"
    /\ UNCHANGED serviceVars
    /\ DisconnectLoop(dIdx)
    /\ UNCHANGED <<breakerVars, producer, admin, isShuttingDown, lastError, callVars, now>>
    /\ objs' = Reclaim(SetSt(objs, dcur, "disconnected"),
                       Live')

\* await this.admin.disconnect() resolves
DisconnectAdminOk ==
    /\ dpc = "admin"
    /\ UNCHANGED serviceVars
    /\ admin' = NULL
    /\ connectionState' = "DISCONNECTED"
    /\ dpc' = "finished"
    /\ dres' = Settle(dres, "resolved")
    /\ UNCHANGED <<breakerVars, producer, consumers, isShuttingDown, lastError,
                   callVars, now, dIdx, dcur>>
    /\ objs' = Reclaim(SetSt(objs, admin, "disconnected"),
                       Live')

\* one of the awaited disconnect() calls rejects: the catch block
DisconnectFail ==
    /\ dpc \in {"producer", "consumer", "admin"}
    /\ UNCHANGED serviceVars
    /\ connectionState' = "ERROR"
    /\ lastError' = "disconnect failed"
    /\ dpc' = "failed"
    /\ dIdx' = 0
    /\ dcur' = NULL
    /\ dres' = Settle(dres, "rejected")
    /\ UNCHANGED <<breakerVars, producer, consumers, admin, isShuttingDown,
                   callVars, now>>
    /\ objs' = Reclaim(objs, Live')

\* disconnect() that awaits disconnectPromise alone: no timer settles it
DisconnectTimeout_norace ==
    /\ dres = "pending"
    /\ UNCHANGED vars

\* the timer of timeoutPromise fires before disconnectPromise has settled
DisconnectTimeout ==
    /\ dres = "pending"
    /\ UNCHANGED serviceVars
    /\ dres' = "timeout"
    /\ UNCHANGED <<breakerVars, managerVars, callVars, objs, now, dpc, dIdx, dcur>>

\* ------------------------------------------------------------------------
\* KafkaConsumerService: operations
\* ------------------------------------------------------------------------
\* a step of the service that makes no call on the connection manager
NoClientCall ==
    /\ UNCHANGED <<breakerVars, managerVars, callVars, disconnectVars, now>>
    /\ objs' = Reclaim(objs, Live')

\* the callback runs to its next await; where that is publishEvent's
\* await kafkaClient.getProducer(), the call is made
CallbackStep(res) ==
    /\ cb' = res.cb
    /\ metrics' = res.metrics
    /\ IF res.cb.pc = "getProducer"
       THEN GetProducer("dlq")
       ELSE NoClientCall

registerHandler(et) ==
    /\ et \notin handlers
    /\ handlers' = handlers \cup {et}
    /\ UNCHANGED producerVars
    /\ UNCHANGED <<isRunning, isPaused, metrics, starter, subscribed, running, runOn, runConfig,
                   delivered, nextOffset, dlqLog, cb>>
    /\ NoClientCall

pause ==
    /\ isPaused' = TRUE
    /\ UNCHANGED producerVars
    /\ UNCHANGED <<isRunning, handlers, metrics, starter, subscribed, running, runOn, runConfig,
                   delivered, nextOffset, dlqLog, cb>>
    /\ NoClientCall

resume ==
    /\ isPaused' = FALSE
    /\ UNCHANGED producerVars
    /\ UNCHANGED <<isRunning, handlers, metrics, starter, subscribed, running, runOn, runConfig,
                   delivered, nextOffset, dlqLog, cb>>
    /\ NoClientCall

stop ==
    /\ isRunning' = FALSE
    /\ UNCHANGED producerVars
    /\ UNCHANGED <<isPaused, handlers, metrics, starter, subscribed, running, runOn, runConfig,
                   delivered, nextOffset, dlqLog, cb>>
    /\ NoClientCall

\* start(config) by caller s, up to its await of
\* kafkaClient.getConsumer(config.groupId)
start(s, cfg) ==
    /\ starter[s].pc = "idle"
    /\ IF isRunning
       THEN UNCHANGED <<starter, clientVars>>
       ELSE /\ starter' = [starter EXCEPT ![s] = [pc |-> "getConsumer", config |-> cfg,
                                                  consumer |-> NULL]]
            /\ GetConsumer(s, cfg.groupId)
    /\ UNCHANGED producerVars
    /\ UNCHANGED <<isRunning, isPaused, handlers, metrics, subscribed, running,
                   runOn, runConfig, delivered, nextOffset, dlqLog, cb>>

\* start(): getConsumer() has settled; on a consumer, await consumer.subscribe()
StartProceed(s) ==
    /\ starter[s].pc = "getConsumer"
    /\ Resume(s)
    /\ starter' = [starter EXCEPT ![s] =
                      IF ret[s].t = "value"
                      THEN [@ EXCEPT !.pc = "subscribe", !.consumer = ret[s].v]
                      ELSE StartIdle]
    /\ UNCHANGED producerVars
    /\ UNCHANGED <<isRunning, isPaused, handlers, metrics, subscribed, running,
                   runOn, runConfig, delivered, nextOffset, dlqLog, cb>>
    /\ objs' = Reclaim(objs, Live')

\* the consumers whose run loop has begun
Running == {r.consumer : r \in running}

\* await consumer.subscribe() resolves (kafkajs refuses it on a consumer that
\* is running); await consumer.run()
SubscribeOk(s) ==
    /\ starter[s].pc = "subscribe"
    /\ starter[s].consumer \notin Running
    /\ subscribed' = subscribed \cup {[consumer |-> starter[s].consumer, by |-> s]}
    /\ starter' = [starter EXCEPT ![s].pc = "run"]
    /\ UNCHANGED producerVars
    /\ UNCHANGED <<isRunning, isPaused, handlers, metrics, running, runOn, runConfig,
                   delivered, nextOffset, dlqLog, cb>>
    /\ NoClientCall

\* await consumer.subscribe() or await consumer.run() rejects: start() rethrows
StartFail(s) ==
    /\ starter[s].pc \in {"subscribe", "run"}
    /\ starter' = [starter EXCEPT ![s] = StartIdle]
    /\ UNCHANGED producerVars
    /\ UNCHANGED <<isRunning, isPaused, handlers, metrics, subscribed, running,
                   runOn, runConfig, delivered, nextOffset, dlqLog, cb>>
    /\ NoClientCall

\* await consumer.run() resolves: the run loop has begun with eachMessage
\* (on a consumer that is running already kafkajs warns and begins nothing)
RunOk(s) ==
    /\ starter[s].pc = "run"
    /\ starter[s].consumer \in ObjIds
    /\ objs[starter[s].consumer] = "connected"
    /\ IF starter[s].consumer \in Running
       THEN UNCHANGED <<running, runOn, runConfig>>
       ELSE /\ running' = running \cup {[consumer |-> starter[s].consumer, by |-> s]}
            /\ runOn' = starter[s].consumer
            /\ runConfig' = starter[s].config
    /\ isRunning' = TRUE
    /\ starter' = [starter EXCEPT ![s] = StartIdle]
    /\ UNCHANGED producerVars
    /\ UNCHANGED <<isPaused, handlers, metrics, subscribed, delivered, nextOffset,
                   dlqLog, cb>>
    /\ NoClientCall

\* a run loop that hands over the next message without awaiting eachMessage
Deliver_noAwait(v, p) ==
    /\ runOn # NULL
    /\ objs[runOn] = "connected"
    /\ cb.pc \in {"idle", "backoff", "pausePoll"}
    /\ delivered < MaxMessages
    /\ delivered' = delivered + 1
    /\ nextOffset' = [nextOffset EXCEPT ![p] = @ + 1]
    /\ UNCHANGED producerVars
    /\ UNCHANGED <<isRunning, isPaused, handlers, starter, subscribed, running, runOn, runConfig, dlqLog>>
    /\ CallbackStep(EachMessage(
            [IdleCallback EXCEPT !.msg = [topic |-> USER_EVENTS, partition |-> p,
                                          offset |-> nextOffset[p], value |-> v]],
            metrics, runConfig, handlers, isPaused))

\* the run loop hands the next message of partition p to eachMessage
Deliver(v, p) ==
    /\ runOn # NULL
    /\ objs[runOn] = "connected"
    /\ cb.pc = "idle"
    /\ delivered < MaxMessages
    /\ delivered' = delivered + 1
    /\ nextOffset' = [nextOffset EXCEPT ![p] = @ + 1]
    /\ UNCHANGED producerVars
    /\ UNCHANGED <<isRunning, isPaused, handlers, starter, subscribed, running, runOn, runConfig, dlqLog>>
    /\ CallbackStep(EachMessage(
            [IdleCallback EXCEPT !.msg = [topic |-> USER_EVENTS, partition |-> p,
                                          offset |-> nextOffset[p], value |-> v]],
            metrics, runConfig, handlers, isPaused))

\* eachMessage: sleep(100) is over and the consumer is no longer paused
PollWake ==
    /\ cb.pc = "pausePoll"
    /\ ~isPaused
    /\ UNCHANGED producerVars
    /\ UNCHANGED <<isRunning, isPaused, handlers, starter, subscribed, running, runOn, runConfig,
                   delivered, nextOffset, dlqLog>>
    /\ CallbackStep(HandleMessage(cb, metrics, runConfig, handlers))

\* the handler's promise resolves
HandlerResolve ==
    /\ cb.pc = "handler"
    /\ UNCHANGED producerVars
    /\ UNCHANGED <<isRunning, isPaused, handlers, starter, subscribed, running, runOn, runConfig,
                   delivered, nextOffset, dlqLog>>
    /\ CallbackStep(HandlerResolved(cb, metrics))

\* the handler's promise rejects with e
HandlerReject(e) ==
    /\ cb.pc = "handler"
    /\ UNCHANGED producerVars
    /\ UNCHANGED <<isRunning, isPaused, handlers, starter, subscribed, running, runOn, runConfig,
                   delivered, nextOffset, dlqLog>>
    /\ CallbackStep(HandlerRejected(cb, metrics, runConfig, e))

\* executeWithRetry: sleep(backoffMs) is over, the next attempt starts
BackoffWake ==
    /\ cb.pc = "backoff"
    /\ UNCHANGED producerVars
    /\ UNCHANGED <<isRunning, isPaused, handlers, starter, subscribed, running, runOn, runConfig,
                   delivered, nextOffset, dlqLog>>
    /\ CallbackStep(RetryLoop([cb EXCEPT !.backoffMs = 0], metrics, runConfig,
                              cb.attempt + 1))

\* publishEvent: getProducer() has settled; on a producer, await producer.send()
\* (which kafkajs rejects at once on a producer that is not connected)
DlqProceed ==
    /\ cb.pc = "getProducer"
    /\ Resume("dlq")
    /\ cb' = IF /\ ret["dlq"].t = "value"
                /\ ret["dlq"].v \in ObjIds
                /\ objs[ret["dlq"].v] = "connected"
             THEN [cb EXCEPT !.pc = "send", !.producer = ret["dlq"].v]
             ELSE DlqPublishFailed(cb)
    /\ UNCHANGED producerVars
    /\ UNCHANGED <<isRunning, isPaused, handlers, metrics, starter, subscribed, running, runOn,
                   runConfig, delivered, nextOffset, dlqLog>>
    /\ objs' = Reclaim(objs, Live')

\* await producer.send() resolves: the record is on the dead-letter topic
DlqSendOk ==
    /\ cb.pc = "send"
    /\ objs[cb.producer] = "connected"
    /\ dlqLog' = Append(dlqLog, [topic |-> DLQ, event |-> DlqEvent(cb.msg, cb.error)])
    /\ cb' = [cb EXCEPT !.pc = "resolved", !.producer = NULL]
    /\ UNCHANGED producerVars
    /\ UNCHANGED <<isRunning, isPaused, handlers, metrics, starter, subscribed, running, runOn,
                   runConfig, delivered, nextOffset>>
    /\ NoClientCall

\* await producer.send() rejects
DlqSendFail ==
    /\ cb.pc = "send"
    /\ cb' = DlqPublishFailed(cb)
    /\ UNCHANGED producerVars
    /\ UNCHANGED <<isRunning, isPaused, handlers, metrics, starter, subscribed, running, runOn,
                   runConfig, delivered, nextOffset, dlqLog>>
    /\ NoClientCall

\* eachMessage has resolved; the run loop goes on to the next message
Advance ==
    /\ cb.pc = "resolved"
    /\ cb' = IdleCallback
    /\ UNCHANGED producerVars
    /\ UNCHANGED <<isRunning, isPaused, handlers, metrics, starter, subscribed, running, runOn,
                   runConfig, delivered, nextOffset, dlqLog>>
    /\ NoClientCall

\* public calls on the connection manager by the callers C, and their completions
ProducerStep(C) ==
    \/ \E c \in C : GetProducerCall(c)
    \/ \E c \in C : ProducerConnectOk(c)
    \/ \E c \in C : ProducerConnectFail(c)

ConsumerStep(C) ==
    \/ \E c \in C, g \in GroupArgs : GetConsumerCall(c, g)
    \/ \E c \in C : ConsumerConnectOk(c)
    \/ \E c \in C : ConsumerConnectFail(c)

AdminStep(C) ==
    \/ \E c \in C : GetAdminCall(c)
    \/ \E c \in C : AdminConnectOk(c)
    \/ \E c \in C : AdminConnectFail(c)

DisconnectStep ==
    \/ DisconnectCall
    \/ DisconnectProducerOk
    \/ DisconnectConsumerOk
    \/ DisconnectAdminOk
    \/ DisconnectFail
    \/ DisconnectTimeout

\* the connection manager under concurrent getProducer / getConsumer calls
Next ==
    \/ Tick
    \/ ProducerStep(Callers)
    \/ ConsumerStep(Callers)
    \/ \E c \in Callers : Return(c)

Spec == Init /\ [][Next]_vars

\* the connection manager under the calls of one caller and a concurrent
\* disconnect()
NextShutdown ==
    \/ ProducerStep(ShutdownCallers)
    \/ ConsumerStep(ShutdownCallers)
    \/ AdminStep(ShutdownCallers)
    \/ \E c \in ShutdownCallers : Return(c)
    \/ DisconnectStep

SpecShutdown == Init /\ [][NextShutdown]_vars

\* the same, with the timer of disconnect()'s timeoutPromise firing: a timer
\* that has been set fires once the event loop is free
SpecShutdownLive == Init /\ [][NextShutdown]_vars /\ WF_vars(DisconnectTimeout)

HealthStep(C) ==
    \/ \E c \in C : HealthCheck(c)
    \/ \E c \in C : HealthConnectOk(c)
    \/ \E c \in C : HealthConnectFail(c)
    \/ \E c \in C : ListTopicsOk(c)
    \/ \E c \in C : ListTopicsFail(c)

\* healthCheck() calls of one caller, with the getConsumer() calls of another
\* through the circuit breaker and a concurrent disconnect()
NextHealth ==
    \/ Tick
    \/ HealthStep(HealthCallers)
    \/ \E c \in Callers \ HealthCallers : GetConsumerCall(c, "")
    \/ \E c \in Callers \ HealthCallers : ConsumerConnectOk(c)
    \/ \E c \in Callers \ HealthCallers : ConsumerConnectFail(c)
    \/ \E c \in Callers : Return(c)
    \/ DisconnectCall
    \/ DisconnectConsumerOk
    \/ DisconnectAdminOk
    \/ DisconnectFail
    \/ DisconnectTimeout

SpecHealth == Init /\ [][NextHealth]_vars

\* getConsumer() calls for two consumer groups, one caller per group; the
\* connections of the FailingCallers' group may fail, those of the other
\* group do not
NextGroups ==
    \/ Tick
    \/ \E c \in Callers : GetConsumerCall(c, GroupOf[c])
    \/ \E c \in Callers : ConsumerConnectOk(c)
    \/ \E c \in FailingCallers : ConsumerConnectFail(c)
    \/ \E c \in Callers : Return(c)

SpecGroups == Init /\ [][NextGroups]_vars

\* KafkaProducerService: publishEvent() and publishBatch()

\* events.map(... EventSchema.parse(enriched)): every envelope validates
Validates_first(b) == 1 \notin b.invalid
Validates(b) == b.invalid = {}

\* the catch block: console.error, throw new Error("Failed to publish ...")
PublishFailed(p) == [p EXCEPT !.pc = "done", !.producer = NULL, !.result = "rejected"]

\* { ...a, ...b }: the fields of b override those of a
Spread(a, b) == [k \in DOMAIN a \cup DOMAIN b |-> IF k \in DOMAIN b THEN b[k] ELSE a[k]]

\* the enriched envelope of publishEvent(): { ...event, eventId: uuidv4(),
\* timestamp: new Date().toISOString() }
Enrich(e, u) == Spread(e, [eventId |-> u, timestamp |-> "now"])

\* EventSchema.parse of an envelope that validates: version defaults to "1.0"
Parsed(env) == Spread([version |-> "1.0"], env)

\* JSON.stringify(validatedEvent)
Stringify(v) == <<"json", v>>

\* the message publishEvent() hands to producer.send()
WireMessage(c) ==
    LET v == Parsed(Enrich(c.event, c.uuid))
        own == [eventType |-> v.eventType, eventId |-> v.eventId]
    IN  [key |-> IF c.options.key \in {{}, {""}}
                 THEN v.eventId
                 ELSE CHOOSE k \in c.options.key : TRUE,
         value |-> Stringify(v),
         headers |-> IF c.options.headers = {}
                     THEN own
                     ELSE Spread(CHOOSE h \in c.options.headers : TRUE, own)]

\* publishEvent(topic, event) (a batch of one) or publishBatch(topic, events)
\* up to its first await: the envelopes are enriched and parsed, then
\* await kafkaClient.getProducer()
publish(kind, b, c) ==
    /\ pub.pc = "idle"
    /\ kind = "event" => b.size = 1
    /\ kind = "batch" => c = BatchCall
    /\ b.invalid \subseteq 1..b.size
    /\ Len(sent) < MaxSends
    /\ UNCHANGED <<consumerVars, sent>>
    /\ IF Validates(b)
       THEN /\ pub' = [IdlePublish EXCEPT !.pc = "getProducer", !.kind = kind, !.batch = b,
                                          !.call = c]
            /\ GetProducer("pub")
       ELSE /\ pub' = PublishFailed([IdlePublish EXCEPT !.kind = kind, !.batch = b,
                                                        !.call = c])
            /\ NoClientCall

\* getProducer() has settled; on a producer, await producer.send()
\* (which kafkajs rejects at once on a producer that is not connected)
PubProceed ==
    /\ pub.pc = "getProducer"
    /\ pub.kind \in {"event", "batch"}
    /\ Resume("pub")
    /\ pub' = IF /\ ret["pub"].t = "value"
                 /\ ret["pub"].v \in ObjIds
                 /\ objs[ret["pub"].v] = "connected"
              THEN [pub EXCEPT !.pc = "send", !.producer = ret["pub"].v,
                               !.message = IF pub.kind = "event"
                                           THEN {WireMessage(pub.call)} ELSE {}]
              ELSE PublishFailed(pub)
    /\ UNCHANGED <<consumerVars, sent>>
    /\ objs' = Reclaim(objs, Live')

\* await producer.send() resolves: the messages are on the topic
PubSendOk ==
    /\ pub.pc = "send"
    /\ objs[pub.producer] = "connected"
    /\ sent' = Append(sent, [kind |-> pub.kind, batch |-> pub.batch])
    /\ pub' = [pub EXCEPT !.pc = "done", !.producer = NULL, !.result = "resolved"]
    /\ UNCHANGED consumerVars
    /\ NoClientCall

\* await producer.send() rejects
PubSendFail ==
    /\ pub.pc = "send"
    /\ pub' = PublishFailed(pub)
    /\ UNCHANGED <<consumerVars, sent>>
    /\ NoClientCall

\* the caller takes the outcome of the publish call
PubReturn ==
    /\ pub.pc = "done"
    /\ pub' = IdlePublish
    /\ UNCHANGED <<consumerVars, sent>>
    /\ NoClientCall

NextProducer ==
    \/ \E b \in Batches, c \in PublishCalls : publish("event", b, c)
    \/ \E b \in Batches : publish("batch", b, BatchCall)
    \/ ProducerConnectOk("pub")
    \/ ProducerConnectFail("pub")
    \/ PubProceed
    \/ PubSendOk
    \/ PubSendFail
    \/ PubReturn

SpecProducer == Init /\ [][NextProducer]_vars

\* KafkaProducerService: publishEventTransactional()

\* publishEventTransactional(topic, event) up to its first await:
\* await kafkaClient.getProducer()
publishEventTransactional(b, c) ==
    /\ pub.pc = "idle"
    /\ b.size = 1
    /\ b.invalid \subseteq 1..b.size
    /\ c.options = BatchCall.options
    /\ Len(sent) < MaxSends
    /\ UNCHANGED <<consumerVars, sent>>
    /\ pub' = [IdlePublish EXCEPT !.pc = "getProducer", !.kind = "txn", !.batch = b, !.call = c]
    /\ GetProducer("pub")

\* getProducer() has settled: its error goes to the caller as it is; on a
\* producer, await producer.transaction()
TxnProceed ==
    /\ pub.pc = "getProducer"
    /\ pub.kind = "txn"
    /\ Resume("pub")
    /\ pub' = IF ret["pub"].t = "value"
              THEN [pub EXCEPT !.pc = "transaction", !.producer = ret["pub"].v]
              ELSE PublishFailed(pub)
    /\ UNCHANGED <<consumerVars, sent>>
    /\ objs' = Reclaim(objs, Live')

\* the catch block up to its await: await transaction.abort()
TxnCatch(p) == [p EXCEPT !.pc = "abort"]

\* producer.transaction() resolves: the transaction is begun; the envelope
\* is enriched and parsed, then await transaction.send()
TxnBeginOk ==
    /\ pub.pc = "transaction"
    /\ objs[pub.producer] = "connected"
    /\ pub' = IF Validates(pub.batch)
              THEN [pub EXCEPT !.pc = "txnSend", !.txn = "open"]
              ELSE TxnCatch([pub EXCEPT !.txn = "open"])
    /\ UNCHANGED <<consumerVars, sent>>
    /\ NoClientCall

\* producer.transaction() rejects, outside the try block
TxnBeginFail ==
    /\ pub.pc = "transaction"
    /\ pub' = PublishFailed(pub)
    /\ UNCHANGED <<consumerVars, sent>>
    /\ NoClientCall

\* transaction.send() resolves; await transaction.commit()
TxnSendOk ==
    /\ pub.pc = "txnSend"
    /\ pub' = [pub EXCEPT !.pc = "commit"]
    /\ UNCHANGED <<consumerVars, sent>>
    /\ NoClientCall

\* transaction.send() rejects
TxnSendFail ==
    /\ pub.pc = "txnSend"
    /\ pub' = TxnCatch(pub)
    /\ UNCHANGED <<consumerVars, sent>>
    /\ NoClientCall

\* transaction.commit() resolves: the message is visible to consumers and the
\* call returns
TxnCommitOk ==
    /\ pub.pc = "commit"
    /\ sent' = Append(sent, [kind |-> pub.kind, batch |-> pub.batch])
    /\ pub' = [pub EXCEPT !.pc = "done", !.producer = NULL, !.result = "resolved",
                          !.txn = "committed"]
    /\ UNCHANGED consumerVars
    /\ NoClientCall

\* transaction.commit() rejects
TxnCommitFail ==
    /\ pub.pc = "commit"
    /\ pub' = TxnCatch(pub)
    /\ UNCHANGED <<consumerVars, sent>>
    /\ NoClientCall

\* transaction.abort() resolves: console.error, throw new Error("Failed to
\* publish transactional event ...")
TxnAbortOk ==
    /\ pub.pc = "abort"
    /\ pub' = PublishFailed([pub EXCEPT !.txn = "aborted"])
    /\ UNCHANGED <<consumerVars, sent>>
    /\ NoClientCall

\* transaction.abort() rejects inside the catch block: its error goes to the
\* caller
TxnAbortFail ==
    /\ pub.pc = "abort"
    /\ pub' = PublishFailed(pub)
    /\ UNCHANGED <<consumerVars, sent>>
    /\ NoClientCall

NextTxn ==
    \/ \E b \in Batches, c \in PublishCalls : publishEventTransactional(b, c)
    \/ ProducerConnectOk("pub")
    \/ ProducerConnectFail("pub")
    \/ TxnProceed
    \/ TxnBeginOk
    \/ TxnBeginFail
    \/ TxnSendOk
    \/ TxnSendFail
    \/ TxnCommitOk
    \/ TxnCommitFail
    \/ TxnAbortOk
    \/ TxnAbortFail
    \/ PubReturn

SpecTxn == Init /\ [][NextTxn]_vars

\* the consumer service: start(), the run loop's eachMessage callback with
\* retries and dead-letter publishing, pause() / resume() / stop(); the
\* broker accepts the connection start() asks for (Next covers a consumer
\* connection that fails)
NextConsumer ==
    \/ \E et \in RegisteredTypes : registerHandler(et)
    \/ \E cfg \in Configs : start("start", cfg)
    \/ ConsumerConnectOk("start")
    \/ StartProceed("start")
    \/ SubscribeOk("start")
    \/ StartFail("start")
    \/ RunOk("start")
    \/ pause
    \/ resume
    \/ stop
    \/ \E v \in Values, p \in Partitions : Deliver(v, p)
    \/ PollWake
    \/ HandlerResolve
    \/ \E e \in HandlerThrows : HandlerReject(e)
    \/ BackoffWake
    \/ ProducerConnectOk("dlq")
    \/ ProducerConnectFail("dlq")
    \/ DlqProceed
    \/ DlqSendOk
    \/ DlqSendFail
    \/ Advance

SpecConsumer == Init /\ [][NextConsumer]_vars

\* the retry loop of the started service, for maxRetries up to MaxMaxRetries
NextRetry ==
    \/ \E v \in Values, p \in Partitions : Deliver(v, p)
    \/ HandlerResolve
    \/ \E e \in HandlerThrows : HandlerReject(e)
    \/ BackoffWake
    \/ Advance

SpecRetry == InitStarted /\ [][NextRetry]_vars

\* the started service with pause() and resume(); the timer of sleep(100)
\* fires, so a poll loop that can leave its while loop does
NextPause ==
    \/ pause
    \/ resume
    \/ \E v \in Values, p \in Partitions : Deliver(v, p)
    \/ PollWake
    \/ HandlerResolve
    \/ \E e \in HandlerThrows : HandlerReject(e)
    \/ BackoffWake
    \/ Advance

SpecPause == InitStarted /\ [][NextPause]_vars /\ WF_vars(PollWake)

\* start() and stop() on the consumer service, by two callers
NextStart ==
    \/ \E s \in Starters, cfg \in Configs : start(s, cfg)
    \/ \E s \in Starters : ConsumerConnectOk(s)
    \/ \E s \in Starters : ConsumerConnectFail(s)
    \/ \E s \in Starters : StartProceed(s)
    \/ \E s \in Starters : SubscribeOk(s)
    \/ \E s \in Starters : StartFail(s)
    \/ \E s \in Starters : RunOk(s)
    \/ stop

SpecStart == Init /\ [][NextStart]_vars

\* ------------------------------------------------------------------------
\* Properties
\* ------------------------------------------------------------------------
\* caller c makes a public call in this step
Calls(c) == pc[c] = "idle" /\ pc'[c] # "idle"
\* caller c's pending connection attempt completes in this step
Completes(c) == pc[c] \in {"producerConnect", "consumerConnect"} /\ pc'[c] = "done"
\* the call c makes in this step returns a handle only by connecting one
NeedsConnection(c) ==
    \/ op'[c] = "getProducer" /\ producer = NULL
    \/ op'[c] = "getConsumer" /\ ~MapHas(consumers, arg'[c])
CooldownElapsed == now - circuitBreaker.lastFailureTime > 60000

\* the handler is invoked in this step
HandlerInvoked == cb'.invoked > cb.invoked
\* the maxRetries executeWithRetry was called with for the current message
maxRetries == MaxRetriesOf(runConfig)
\* the eachMessage callback has settled after the handler failed on all
\* maxRetries+1 attempts, with the dead-letter queue enabled
FailedAllAttempts ==
    /\ cb.pc \in {"resolved", "raised"}
    /\ cb.retry = "raised"
    /\ cb.invoked >= 1
    /\ cb.invoked = maxRetries + 1
    /\ runConfig.enableDLQ # "false"
\* the records on the dead-letter topic that name message m
RecordsFor(m) ==
    {i \in 1..Len(dlqLog) :
        /\ dlqLog[i].topic = "dead-letter-queue"
        /\ dlqLog[i].event.originalTopic = m.topic
        /\ dlqLog[i].event.originalPartition = m.partition
        /\ dlqLog[i].event.originalOffset = m.offset}

\* C1: between pause() and resume() no registered handler is invoked, also
\* not for a message whose processing (a handler attempt, a retry backoff)
\* had begun before pause().
C1_NoHandlerWhilePaused == [][HandlerInvoked => ~isPaused]_vars

\* C2: a delivered message whose handler fails on all maxRetries+1 attempts,
\* with enableDLQ not false, has exactly one record on the dead-letter topic,
\* which names its topic, partition and offset and has a non-empty error text.
C2_ExactlyOneDlq ==
    FailedAllAttempts =>
        /\ Cardinality(RecordsFor(cb.msg)) = 1
        /\ \A i \in RecordsFor(cb.msg) : dlqLog[i].event.error # ""

\* C3: the eachMessage callback (pause poll and handleMessage) never raises
\* to the broker client, whatever parsing, validation, the handler and the
\* dead-letter publish do.
C3_NeverRaises == cb.pc # "raised"

\* C4, as stated: executeWithRetry invokes fn at least once and at most
\* maxRetries+1 times, and when it raises, all maxRetries+1 invocations have
\* failed and it raises the error of the last one.
C4_RetryContract ==
    cb.retry \in {"returned", "raised"} =>
        /\ cb.invoked >= 1
        /\ cb.invoked <= maxRetries + 1
        /\ cb.retry = "raised" =>
              (cb.invoked = maxRetries + 1 /\ cb.error = cb.lastError)

\* what executeWithRetry has done when it has returned or raised
RetryOutcome ==
    /\ cb.retry = "returned" =>
          /\ cb.invoked >= 1
          /\ cb.invoked <= maxRetries + 1
          /\ cb.invoked = cb.attempt + 1
    /\ cb.retry = "raised" =>
          /\ cb.invoked = (IF maxRetries >= 0 THEN maxRetries + 1 ELSE 0)
          /\ cb.error = (IF cb.invoked = 0 \/ cb.lastError.falsy
                         THEN Thrown(TRUE, "Max retries exceeded",
                                     "Error: Max retries exceeded", FALSE, TRUE)
                         ELSE cb.lastError)

\* C4, amended: with maxRetries >= 0 executeWithRetry invokes fn at least once
\* and at most maxRetries+1 times, once more than the invocations that failed
\* when it returns, and never again after the first successful invocation;
\* when all maxRetries+1 invocations fail it raises what the last one threw
\* if that is truthy, else Error("Max retries exceeded"); with maxRetries < 0
\* it never invokes fn and raises Error("Max retries exceeded").
C4_RetryOutcome ==
    [][RetryOutcome' /\ (cb.retry = "returned" => cb'.invoked <= cb.invoked)]_vars

\* a handler that failed exactly twice and then succeeded
C4_Witness == cb.retry = "returned" /\ cb.attempt = 2 /\ cb.invoked = 3

\* C5: the fifth failed attempt in a row through the breaker (no successful
\* one in between) leaves the breaker OPEN, and a CLOSED breaker has counted
\* fewer than 5 failures.
C5_OpensAfterFiveFailures ==
    /\ [](circuitBreaker.state = "CLOSED" => circuitBreaker.failures < 5)
    /\ [][(consecutiveFailures' = consecutiveFailures + 1 /\ consecutiveFailures' >= 5)
            => circuitBreaker'.state = "OPEN"]_vars

C5_Witness == consecutiveFailures = 5 /\ circuitBreaker.state = "OPEN"

\* C6: a getProducer()/getConsumer() call that has to connect, made while the
\* breaker is OPEN and the 60 s cooldown has not elapsed, throws at once,
\* starts no connection attempt and leaves the breaker as it was.
C6_OpenFailsFast ==
    [][\A c \in Callers :
        (Calls(c) /\ NeedsConnection(c)
            /\ circuitBreaker.state = "OPEN" /\ ~CooldownElapsed)
        => /\ pc'[c] = "done"
           /\ ret'[c].t = "throw"
           /\ local'[c] = NULL
           /\ objs' = objs
           /\ circuitBreaker' = circuitBreaker]_vars

C6_Witness ==
    /\ circuitBreaker.state = "OPEN" /\ ~CooldownElapsed
    /\ \E c \in Callers :
        /\ pc[c] = "done" /\ op[c] = "getProducer"
        /\ ret[c] = Throw("Circuit breaker is OPEN")
    /\ \A id \in ObjIds : id.kind = "producer" => objs[id] = "free"

\* C7: the first call through the breaker after the cooldown has elapsed in
\* OPEN moves it to HALF_OPEN and runs the attempt; when that attempt succeeds
\* the breaker is CLOSED with the counter at 0, when it fails the breaker is
\* OPEN again.
C7_HalfOpenProbe ==
    [][\A c \in Callers :
        /\ (Calls(c) /\ NeedsConnection(c) /\ ~isShuttingDown
                /\ circuitBreaker.state = "OPEN" /\ CooldownElapsed)
            => (circuitBreaker'.state = "HALF_OPEN"
                    /\ pc'[c] \in {"producerConnect", "consumerConnect"})
        /\ (c \in probes /\ Completes(c) /\ ret'[c].t = "value")
            => (circuitBreaker'.state = "CLOSED" /\ circuitBreaker'.failures = 0)
        /\ (c \in probes /\ Completes(c) /\ ret'[c].t = "throw")
            => circuitBreaker'.state = "OPEN"]_vars

\* C8: for each group id at most one connection attempt is in flight, at most
\* one consumer handle is connecting or connected, and the callers that were
\* handed a consumer were handed the same one.
C8_ConsumerSingleton ==
    \A g \in Groups :
        /\ Cardinality({c \in Callers : pc[c] = "consumerConnect" /\ arg[c] = g}) <= 1
        /\ Cardinality({id \in ObjIds : id.kind = "consumer" /\ id.group = g
                            /\ objs[id] \in {"connecting", "connected"}}) <= 1
        /\ \A c, d \in Callers :
            (pc[c] = "done" /\ pc[d] = "done" /\ op[c] = "getConsumer"
                /\ op[d] = "getConsumer" /\ arg[c] = g /\ arg[d] = g
                /\ ret[c].t = "value" /\ ret[d].t = "value")
            => ret[c].v = ret[d].v

\* C9: a getProducer() call that returns hands out this.producer, and the
\* connect() of that producer has completed successfully by then.
C9_ProducerConnected ==
    [][\A c \in Callers :
        (pc[c] # "done" /\ pc'[c] = "done" /\ op'[c] = "getProducer"
            /\ ret'[c].t = "value")
        => /\ ret'[c].v \in ObjIds
           /\ ret'[c].v = producer'
           /\ objs'[ret'[c].v] = "connected"]_vars

\* C10: once disconnect() has been called the shutting-down flag stays set,
\* and every getProducer(), getConsumer() and getAdmin() call made from then
\* on throws without constructing or connecting a handle.
C10_ShutdownFailFast ==
    [][/\ (dpc # "idle" => isShuttingDown')
       /\ (isShuttingDown => isShuttingDown')
       /\ \A c \in Callers :
            (dpc # "idle" /\ Calls(c))
            => /\ pc'[c] = "done"
               /\ ret'[c].t = "throw"
               /\ local'[c] = NULL
               /\ objs' = objs
               /\ <<producer, consumers, admin>>' = <<producer, consumers, admin>>]_vars

C10_Witness ==
    /\ dres = "timeout"
    /\ \E c \in Callers :
        /\ pc[c] = "done" /\ op[c] = "getAdmin"
        /\ ret[c] = Throw("Kafka client is shutting down")

\* C11: disconnect(timeoutMs) always settles: it resolves only when the
\* producer, every consumer and the admin have been disconnected, it raises
\* otherwise, and it does not stay pending even if a broker disconnect never
\* completes.
C11_DisconnectSettles ==
    /\ [](dres = "resolved" => dpc = "finished")
    /\ [](dres \in {"rejected", "timeout"} => dpc # "idle")
    /\ (dres = "pending" ~> dres \in {"resolved", "rejected", "timeout"})

\* raised by the timeout while producer.disconnect() has not completed
C11_Witness == dres = "timeout" /\ dpc = "producer"

\* disconnect() resolves in this step
DisconnectResolves == dres # "resolved" /\ dres' = "resolved"

\* C12: when disconnect() resolves, the manager holds no producer, no
\* consumer and no admin handle and connectionState is DISCONNECTED.
C12_FullTeardown ==
    [][DisconnectResolves =>
        /\ producer' = NULL
        /\ consumers' = <<>>
        /\ admin' = NULL
        /\ connectionState' = "DISCONNECTED"]_vars

\* C13: over any interleaving of start() calls consumer.subscribe() succeeds
\* and a run loop is begun at most once, and a start() called while the
\* service is running makes no call on the connection manager.
C13_IdempotentStart ==
    /\ [](Cardinality(subscribed) <= 1 /\ Cardinality(running) <= 1)
    /\ [][\A s \in Starters :
            (isRunning /\ starter[s].pc = "idle") => starter'[s].pc = "idle"]_vars

\* stop() has been called on the running service
Stopped == ~isRunning /\ running # {}

\* C14: Stopped is terminal: once stop() has been called on the running
\* service, no start(), pause() or resume() makes it Running again and no
\* handler is invoked.
C14_StoppedIsTerminal == [][Stopped => (~isRunning' /\ ~HandlerInvoked)]_vars

\* handleMessage is entered in this step
HandlingBegins == cb.pc \in {"idle", "pausePoll"} /\ cb'.pc \notin {"idle", "pausePoll"}
\* the eachMessage callback settles in this step
CallbackSettles == cb.pc \notin {"resolved", "raised"} /\ cb'.pc \in {"resolved", "raised"}
\* the message in hand has a value that is not JSON or fails the event schema
InvalidMsg ==
    /\ cb.msg.value # NoValue
    /\ ~(cb.msg.value.json /\ cb.msg.value.shape = "event"
            /\ cb.msg.value.eventType \in
                  {"user.created", "user.updated", "user.deleted", "order.created",
                   "dlq.message"})

\* the dead-letter records that name the message in hand
Records == RecordsFor(cb.msg)

\* C15, as stated: an invalid message gets no handler invocation, no retry
\* and no backoff, adds 1 to totalFailed and has a record on the dead-letter
\* topic when the callback settles.
C15_InvalidToDlq ==
    [][/\ (HandlingBegins /\ InvalidMsg') =>
            /\ metrics'.totalFailed = metrics.totalFailed + 1
            /\ metrics'.totalRetries = metrics.totalRetries
            /\ cb'.invoked = 0
       /\ (CallbackSettles /\ InvalidMsg') => Records' # {}]_vars

\* C15, amended: an invalid message gets no handler invocation, no retry and
\* no backoff, adds 1 to totalFailed and leaves the other counters alone;
\* with enableDLQ not false one dead-letter publish is attempted, which leaves
\* one record if it succeeds and none if it fails, and with enableDLQ false
\* nothing is published.
C15_InvalidNoRetry ==
    [][/\ (HandlingBegins /\ InvalidMsg') =>
            /\ metrics' = [metrics EXCEPT !.totalFailed = @ + 1]
            /\ cb'.invoked = 0
            /\ cb'.pc = (IF runConfig.enableDLQ = "false" THEN "resolved"
                         ELSE "getProducer")
       /\ (InvalidMsg /\ cb.pc \notin {"idle", "pausePoll"}) =>
            /\ cb'.pc \in {"idle", "getProducer", "send", "resolved"}
            /\ cb'.invoked = 0
            /\ metrics' = metrics
            /\ dlqLog' # dlqLog =>
                  (cb.pc = "send" /\ runConfig.enableDLQ # "false"
                      /\ Records = {} /\ Cardinality(Records') = 1)]_vars

\* an invalid message whose dead-letter record has been published
C15_Witness == InvalidMsg /\ cb.pc = "resolved" /\ RecordsFor(cb.msg) # {}

\* the message in hand is a valid event
ValidMsg == cb.msg.value # NoValue /\ ~InvalidMsg
\* the message in hand is a valid event that was skipped for want of a handler
Skipped == ValidMsg /\ cb.pc = "resolved" /\ cb.retry = "none"

\* C16: a valid message whose eventType has no registered handler is skipped:
\* the callback resolves at once, no handler is invoked, nothing is published
\* to the dead-letter topic and the counters are unchanged.
C16_UnhandledSkipped ==
    /\ [][(HandlingBegins /\ ValidMsg' /\ cb'.msg.value.eventType \notin handlers) =>
            /\ cb'.pc = "resolved"
            /\ cb'.invoked = 0
            /\ metrics' = metrics
            /\ dlqLog' = dlqLog]_vars
    /\ [](Skipped => (cb.invoked = 0 /\ Records = {}))
    /\ [][Skipped => (cb'.pc \in {"resolved", "idle"} /\ metrics' = metrics
                        /\ dlqLog' = dlqLog)]_vars

\* a delivered 'user.created' event with no handler registered for it
C16_Witness == Skipped /\ cb.msg.value.eventType \notin handlers /\ delivered = 2

\* C17: a run of executeWithRetry that made k >= 1 handler invocations has
\* added k-1 to totalRetries, whether the handler succeeded in the end or
\* failed on all maxRetries+1 invocations.
C17_RetryCounter ==
    (cb.retry \in {"returned", "raised"} /\ cb.invoked >= 1)
        => metrics.totalRetries = cb.retries0 + cb.invoked - 1

\* the handler's promise rejects in this step
HandlerRejects == cb.pc = "handler" /\ cb'.pc # "handler" /\ ~cb'.handled
\* 1000, 2000, 4000, 8000, 16000, then 30000 from attempt 5 on
Schedule(attempt) ==
    IF attempt >= 5 THEN 30000
    ELSE <<1000, 2000, 4000, 8000, 16000>>[attempt + 1]

\* C18: after failed attempt a (0-based) that is not the last, executeWithRetry
\* waits min(1000 * 2^a, 30000) ms before the next attempt, and after the last
\* failed attempt it raises without waiting.
C18_BackoffSchedule ==
    [][HandlerRejects =>
        IF cb.attempt < maxRetries
        THEN cb'.pc = "backoff" /\ cb'.backoffMs = Schedule(cb.attempt)
        ELSE cb'.pc \in {"resolved", "raised", "getProducer"} /\ cb'.backoffMs = 0]_vars

\* the wait after the sixth failed attempt, where the cap applies
C18_Witness == cb.pc = "backoff" /\ cb.attempt = 5 /\ cb.backoffMs = 30000

\* C19: publishBatch() makes a broker call only for a batch of 1 to
\* MaxBatchSize events: the call with an empty batch or with more than
\* MaxBatchSize events ends without a getProducer() call (the empty batch
\* resolved, the oversized one rejected), and no batch outside that range is
\* ever sent
MaxBatchSize == 1000
C19_BatchGuardrails ==
    [][/\ /\ pub.pc = "idle"
          /\ pub'.pc # "idle"
          /\ pub'.kind = "batch"
          /\ pub'.batch.size \notin 1..MaxBatchSize
          => /\ pub'.pc = "done"
             /\ pub'.result = IF pub'.batch.size = 0 THEN "resolved" ELSE "rejected"
             /\ pc'["pub"] = "idle"
       /\ sent' # sent =>
            \/ pub.kind # "batch"
            \/ pub.batch.size \in 1..MaxBatchSize]_vars

\* C20: a publishEvent() or publishBatch() call in which some enriched
\* envelope fails the schema is rejected at once, with no getProducer() call
\* and nothing sent; the broker is only ever sent batches in which every
\* event validates
C20_InvalidNotSent ==
    [][/\ /\ pub.pc = "idle"
          /\ pub'.pc # "idle"
          /\ pub'.batch.invalid # {}
          => /\ pub'.pc = "done"
             /\ pub'.result = "rejected"
             /\ pc'["pub"] = "idle"
             /\ sent' = sent
             /\ objs' = objs
       /\ sent' # sent =>
            /\ pub.batch.invalid = {}
            /\ sent' = Append(sent, [kind |-> pub.kind, batch |-> pub.batch])]_vars

\* publishBatch() has rejected a two-event batch whose second event alone is
\* invalid, after an earlier batch was sent
C20_Witness ==
    /\ pub.pc = "done"
    /\ pub.result = "rejected"
    /\ pub.kind = "batch"
    /\ pub.batch = Batch(2, {2})
    /\ Len(sent) = 1

\* C21: the message publishEvent() hands to the broker carries the uuid the
\* producer assigned as the envelope's eventId, its key is the key the caller
\* supplied or, when the caller supplied none, that eventId, and its headers
\* eventType and eventId are the envelope's
C21_WireContract ==
    \A m \in pub.message :
        LET v == m.value[2]
        IN  /\ v.eventId = pub.call.uuid
            /\ v.eventType = pub.call.event.eventType
            /\ m.key = IF pub.call.options.key = {}
                       THEN v.eventId
                       ELSE CHOOSE k \in pub.call.options.key : TRUE
            /\ m.headers.eventType = v.eventType
            /\ m.headers.eventId = v.eventId

\* C22: when a publishEventTransactional() call that began a broker
\* transaction settles, the transaction is committed or aborted - committed
\* when the call returned, aborted when it raised - and a transactional
\* message becomes visible only by the commit of a call that returns
C22_TxnAtomicity ==
    /\ pub.pc = "done" /\ pub.kind = "txn" /\ pub.txn # "none" =>
        /\ pub.txn \in {"committed", "aborted"}
        /\ pub.result = "resolved" <=> pub.txn = "committed"
    /\ pub.kind = "txn" /\ pub.txn = "committed" => pub.pc = "done" /\ pub.result = "resolved"

\* C23: a healthCheck() call never raises: it settles with a result, which
\* has isHealthy true only when the admin's list-topics call resolved, and
\* otherwise has isHealthy false and carries the error, which is also the
\* manager's lastError
C23_HealthNeverRaises ==
    [][\A c \in HealthCallers :
          op'[c] = "healthCheck" /\ pc[c] # "done" /\ pc'[c] = "done" =>
            /\ ret'[c].t \in {"healthy", "unhealthy"}
            /\ ret'[c].t = "healthy" =>
                 pc[c] = "listTopics" /\ objs[local[c]] = "connected"
            /\ ret'[c].t = "unhealthy" =>
                 ret'[c].e # "" /\ lastError' = ret'[c].e]_vars

\* disconnect() has resolved, and a healthCheck() call made during or after
\* it has returned the unhealthy result of a manager that is shutting down
C23_Witness ==
    \E c \in HealthCallers :
        /\ dres = "resolved"
        /\ op[c] = "healthCheck"
        /\ pc[c] = "done"
        /\ ret[c] = Unhealthy(connectionState, "Kafka client is shutting down")

\* C24: a healthCheck() call that settles while the circuit breaker is OPEN
\* (and its cooldown has not elapsed) returns isHealthy false
C24_OpenIsUnhealthy ==
    [][\A c \in HealthCallers :
          /\ op'[c] = "healthCheck" /\ pc[c] # "done" /\ pc'[c] = "done"
          /\ circuitBreaker.state = "OPEN"
          /\ ~CooldownElapsed
          => ret'[c].t = "unhealthy"]_vars

C26_PartitionOrder ==
    [][/\ \A p \in Partitions :
            nextOffset'[p] # nextOffset[p] =>
              /\ cb.pc = "idle"
              /\ nextOffset'[p] = nextOffset[p] + 1
              /\ cb'.msg.partition = p
              /\ cb'.msg.offset = nextOffset[p]
       /\ HandlerInvoked =>
            /\ cb'.msg.offset = nextOffset'[cb'.msg.partition] - 1
            /\ \/ cb.msg = cb'.msg
               \/ cb.pc = "idle"
       /\ cb.pc # "idle" /\ cb'.pc = "idle" => cb.pc = "resolved"]_vars

\* the handler is running for the second message of the partition after the
\* first one went through all its attempts and was published to the
\* dead-letter topic
C26_Witness ==
    /\ cb.pc = "handler"
    /\ cb.msg.offset = 1
    /\ Len(dlqLog) = 1
    /\ dlqLog[1].event.originalOffset = 0

\* C27: the circuit breaker never goes from OPEN to CLOSED in one step:
\* CLOSED is entered only from HALF_OPEN
C27_NoOpenToClosed ==
    [][circuitBreaker'.state = "CLOSED" =>
         circuitBreaker.state \in {"CLOSED", "HALF_OPEN"}]_vars

\* C28: once disconnect() has resolved the manager has no producer, no
\* registered consumer and no admin handle, and connectionState is not
\* CONNECTED, in every later state
C28_ShutdownIsFinal ==
    dres = "resolved" =>
        /\ producer = NULL
        /\ consumers = <<>>
        /\ admin = NULL
        /\ connectionState # "CONNECTED"

\* the callback as it was before this step's work on the message in hand
Before == IF delivered' # delivered THEN IdleCallback ELSE cb
\* the handler invocation for the message in hand succeeds in this step
HandlerSucceeds == cb.pc = "handler" /\ cb'.pc = "resolved" /\ cb'.retry = "returned"
\* the message in hand enters handleMessage's catch block in this step
EntersCatch ==
    \/ HandlingBegins /\ InvalidMsg'
    \/ cb'.retry = "raised" /\ Before.retry # "raised"

\* C29: the handling of a delivered message adds 1 to totalProcessed exactly
\* in the step in which its handler invocation succeeds and 1 to totalFailed
\* exactly in the step in which it fails parsing or validation or its retries
\* are exhausted, never both for one message and nothing for a message
\* without a value or without a handler; a dead-letter publish is begun only
\* in the step in which the message is counted as failed
C29_MetricsPartition ==
    /\ [](/\ metrics.totalProcessed + metrics.totalFailed <= delivered
          /\ ~(cb.handled /\ cb.error # NullError))
    /\ [][/\ metrics'.totalProcessed - metrics.totalProcessed =
                IF HandlerSucceeds THEN 1 ELSE 0
          /\ metrics'.totalFailed - metrics.totalFailed =
                IF EntersCatch THEN 1 ELSE 0
          /\ ~(HandlerSucceeds /\ EntersCatch)
          /\ HandlerSucceeds => Before.error = NullError /\ ~Before.handled
          /\ EntersCatch => Before.error = NullError /\ ~Before.handled
          /\ (cb'.pc = "resolved" /\ (cb'.msg.value = NoValue \/ Skipped')) =>
                /\ metrics'.totalProcessed = metrics.totalProcessed
                /\ metrics'.totalFailed = metrics.totalFailed
          /\ (cb'.pc = "getProducer" /\ Before.pc # "getProducer") => EntersCatch]_vars

\* both counters have counted: one message was handled and another went
\* through its retries, was counted as failed and is being dead-lettered
C29_Witness ==
    /\ metrics.totalProcessed = 1
    /\ metrics.totalFailed = 1
    /\ cb.pc = "getProducer"
    /\ cb.invoked > 1

\* C30: a message delivered while the consumer is paused is held in the poll
\* loop, with no handler invocation, no counter and no dead-letter record,
\* for as long as the consumer stays paused; it leaves the loop only into
\* handleMessage, as the same message; and when the consumer is resumed and
\* not paused again, the held message is eventually passed to handleMessage
C30_PauseHolds ==
    /\ [][/\ (delivered' # delivered /\ isPaused) =>
                /\ cb'.pc = "pausePoll"
                /\ cb'.invoked = 0
                /\ metrics' = metrics
                /\ dlqLog' = dlqLog
          /\ cb.pc = "pausePoll" =>
                \/ cb' = cb
                \/ /\ ~isPaused
                   /\ HandlingBegins
                   /\ cb'.msg = cb.msg
                   /\ delivered' = delivered]_vars
    /\ (cb.pc = "pausePoll" /\ []~isPaused) ~> (cb.pc # "pausePoll")

\* resume() was called while the second message of the partition was held
C30_Witness ==
    /\ cb.pc = "pausePoll"
    /\ ~isPaused
    /\ cb.msg.offset = 1

====
